---- MODULE Spec2Model ----
(***************************************************************************)
(* Model of lab2: the family ontology queries (ontology_queries.py) and    *)
(* the interactive command loop over them (main.py).                       *)
(*                                                                         *)
(* The RDF graph is a set of triples <<subject, predicate, object>>.  An   *)
(* IRI is a pair <<namespace, local name>>.  A SPARQL SELECT DISTINCT      *)
(* gives a set of rows in no defined order, so a method that returns the   *)
(* rows as they come can return any ordering of them: such a method is     *)
(* modelled by the set of lists it can return, a method that sorts by the  *)
(* one list it returns.                                                    *)
(***************************************************************************)
EXTENDS Integers, Sequences, FiniteSets, TLC

VARIABLES
    graph,      \* OntologyService.graph: the loaded triples
    pc,         \* where the program is: "start", "parse", "query", "prompt", "rels",
                \* "handled" (a command is done, the loop goes round), "exit"
    op,         \* the method of OntologyService called last
    arg,        \* its person_local argument
    result,     \* the list it returned
    ontoFile,   \* "present" or "missing": onto_path.exists()
    line,       \* the line read by input(PROMPT), a sequence of tokens; <<"EOF">> at end of input
    me,         \* the name parsed from the line
    rels,       \* the relation keywords parsed from the line
    idx,        \* position of the for loop over rels
    out,        \* what the current command printed, one entry per print call
    calls,      \* the OntologyService methods the current command invoked
    exitCode,   \* the exit status of the process, -1 while it runs
    want        \* the name and the relations the user typed the line for

vars == <<graph, pc, op, arg, result, ontoFile, line, me, rels, idx, out, calls, exitCode, want>>

cliVars == <<ontoFile, line, me, rels, idx, out, calls, exitCode, want>>

storeVars == <<graph, op, arg, result>>

(***************************************************************************)
(* Bounds of the model.                                                    *)
(***************************************************************************)
MaxTriples == 3
MaxKinTriples == 4
MaxFacts == 2
MaxCliTriples == 2
MaxRels == 3
MaxParseRels == 2

\* The local names of the individuals, in ascending lexicographic order.
NameOrder == <<"anna", "boris", "mike">>

Persons == {NameOrder[i] : i \in 1..Len(NameOrder)}

Range(s) == {s[i] : i \in 1..Len(s)}

\* What line holds when input(PROMPT) raises EOFError.
EOFLine == <<"<EOF>">>

\* What line holds while no line is being handled.
NoLine == <<"<none>">>

(***************************************************************************)
(* IRIs and local names.                                                   *)
(***************************************************************************)
BaseNs == "onto#"

\* self.base_ns[name]
Local(name) == <<BaseNs, name>>

\* str(row[0]).split("#")[-1]
LocalName(iri) == iri[Len(iri)]

\* sorted(...) of a set of names: Python compares str by code point.
Sorted(S) == SelectSeq(NameOrder, LAMBDA n : n \in S)

\* The rows of a SELECT DISTINCT query, as a list: any ordering of the solutions.
Rows(S) == {s \in [1..Cardinality(S) -> S] : \A i, j \in 1..Cardinality(S) : s[i] = s[j] => i = j}

\* ?s p <o>
\* The same query with the object left unbound.
Subjects_unbound(p, o) == {LocalName(t[1]) : t \in {u \in graph : u[2] = p}}

Subjects(p, o) == {LocalName(t[1]) : t \in {u \in graph : u[2] = p /\ u[3] = o}}

\* <s> p ?o
Objects(s, p) == {LocalName(t[3]) : t \in {u \in graph : u[1] = s /\ u[2] = p}}

is_female(person_local) == <<Local(person_local), "type", Local("Female")>> \in graph

is_male(person_local) == <<Local(person_local), "type", Local("Male")>> \in graph

(***************************************************************************)
(* Base explicit relations: the solution sets of the queries.              *)
(***************************************************************************)
explicit_parents_of(person_local) == Subjects("parentOf", Local(person_local))

explicit_grandparents_of(person_local) == Subjects("grandparentOf", Local(person_local))

explicit_grandchildren_of(person_local) ==
    Objects(Local(person_local), "grandparentOf") \cup Subjects("grandsonOf", Local(person_local))

explicit_mother_of(person_local) == Subjects("motherOf", Local(person_local))

explicit_father_of(person_local) == Subjects("fatherOf", Local(person_local))

explicit_siblings_of(person_local) ==
    Objects(Local(person_local), "sibling") \cup Subjects("sibling", Local(person_local))

explicit_brothers_of(person_local) == Subjects("brotherOf", Local(person_local))

explicit_sisters_of(person_local) == Subjects("sisterOf", Local(person_local))

explicit_aunts_for(person_local) == Subjects("auntFor", Local(person_local))

explicit_uncles_for(person_local) == Subjects("uncleFor", Local(person_local))

explicit_cousins_for(person_local) == Subjects("cousinFor", Local(person_local))

\* The solutions of children_of's query.
children_rows(person_local) == Objects(Local(person_local), "parentOf")

\* The query inside siblings_of without its FILTER.
shared_parent_rows_unfiltered(person_local) ==
    {LocalName(t[1]) : t \in {u \in graph :
        /\ u[2] = "childOf"
        /\ <<Local(person_local), "childOf", u[3]>> \in graph}}

\* The solutions of the query inside siblings_of:
\* ?s childOf ?p . <person> childOf ?p . FILTER (?s != <person>)
shared_parent_rows(person_local) ==
    {LocalName(t[1]) : t \in {u \in graph :
        /\ u[2] = "childOf"
        /\ <<Local(person_local), "childOf", u[3]>> \in graph
        /\ u[1] # Local(person_local)}}

(***************************************************************************)
(* The public methods.  A method that sorts returns one list; a method     *)
(* that returns query rows unsorted is the set of lists it can return.     *)
(***************************************************************************)
children_of(person_local) == Rows(children_rows(person_local))

parents_of(person_local) == Rows(explicit_parents_of(person_local))

\* grandparents_of preferring the stored edges, the way mother_of does.
grandparents_of_stored_first(person_local) ==
    LET exp == explicit_grandparents_of(person_local)
        inf == UNION {explicit_parents_of(p) : p \in explicit_parents_of(person_local)}
    IN  IF exp # {} THEN Sorted(exp) ELSE Sorted(inf)

grandparents_of(person_local) ==
    LET exp == explicit_grandparents_of(person_local)
        inf == UNION {explicit_parents_of(p) : p \in explicit_parents_of(person_local)}
    IN  Sorted(exp \cup inf)

grandchildren_of(person_local) ==
    LET exp == explicit_grandchildren_of(person_local)
        inf == UNION {children_rows(ch) : ch \in children_rows(person_local)}
    IN  Sorted(exp \cup inf)

\* mother_of joining the stored edges with the female parents, the way
\* grandparents_of joins its two sources.
mother_of_joined(person_local) ==
    LET exp == explicit_mother_of(person_local)
        inf == {p \in explicit_parents_of(person_local) : is_female(p)}
    IN  {Sorted(exp \cup inf)}

mother_of(person_local) ==
    LET exp == explicit_mother_of(person_local)
    IN  IF exp # {}
        THEN {Sorted(exp)}
        ELSE {SelectSeq(ps, is_female) : ps \in Rows(explicit_parents_of(person_local))}

father_of(person_local) ==
    LET exp == explicit_father_of(person_local)
    IN  IF exp # {}
        THEN {Sorted(exp)}
        ELSE {SelectSeq(ps, is_male) : ps \in Rows(explicit_parents_of(person_local))}

siblings_of(person_local) ==
    LET exp == explicit_siblings_of(person_local)
        inf == shared_parent_rows(person_local)
    IN  Sorted(exp \cup inf)

brothers_of(person_local) ==
    LET exp == explicit_brothers_of(person_local)
        male_sibs == {s \in Range(siblings_of(person_local)) : is_male(s)}
    IN  Sorted(exp \cup male_sibs)

sisters_of(person_local) ==
    LET exp == explicit_sisters_of(person_local)
        female_sibs == {s \in Range(siblings_of(person_local)) : is_female(s)}
    IN  Sorted(exp \cup female_sibs)

aunts_for(person_local) ==
    LET exp == explicit_aunts_for(person_local)
        res == exp \cup UNION {{sib \in Range(siblings_of(parent)) : is_female(sib)} :
                                parent \in explicit_parents_of(person_local)}
    IN  Sorted(res)

uncles_for(person_local) ==
    LET exp == explicit_uncles_for(person_local)
        res == exp \cup UNION {{sib \in Range(siblings_of(parent)) : is_male(sib)} :
                                parent \in explicit_parents_of(person_local)}
    IN  Sorted(res)

cousins_for(person_local) ==
    LET exp == explicit_cousins_for(person_local)
        res == exp \cup UNION {UNION {children_rows(sib) : sib \in Range(siblings_of(parent))} :
                                parent \in explicit_parents_of(person_local)}
    IN  Sorted(res)

male_cousins_for(person_local) == SelectSeq(cousins_for(person_local), is_male)

\* getattr(service, method_name)(me): the lists the call can return.
Returns(method_name, person_local) ==
    CASE method_name = "parents_of" -> parents_of(person_local)
      [] method_name = "children_of" -> children_of(person_local)
      [] method_name = "mother_of" -> mother_of(person_local)
      [] method_name = "father_of" -> father_of(person_local)
      [] method_name = "grandparents_of" -> {grandparents_of(person_local)}
      [] method_name = "grandchildren_of" -> {grandchildren_of(person_local)}
      [] method_name = "siblings_of" -> {siblings_of(person_local)}
      [] method_name = "brothers_of" -> {brothers_of(person_local)}
      [] method_name = "sisters_of" -> {sisters_of(person_local)}
      [] method_name = "aunts_for" -> {aunts_for(person_local)}
      [] method_name = "uncles_for" -> {uncles_for(person_local)}
      [] method_name = "cousins_for" -> {cousins_for(person_local)}
      [] method_name = "male_cousins_for" -> {male_cousins_for(person_local)}

(***************************************************************************)
(* The triples an ontology file can hold, by vocabulary.                   *)
(***************************************************************************)
Relation(p) == {<<Local(s), p, Local(o)>> : s \in Persons, o \in Persons}

Typing(class) == {<<Local(s), "type", Local(class)>> : s \in Persons}

ParentTriples == Relation("parentOf") \cup Relation("motherOf") \cup Relation("fatherOf")
                    \cup Typing("Female") \cup Typing("Male")

GrandTriples == Relation("parentOf") \cup Relation("grandparentOf")

Predicates == {"parentOf", "motherOf", "fatherOf", "grandparentOf", "grandsonOf", "sibling",
               "brotherOf", "sisterOf", "auntFor", "uncleFor", "cousinFor", "childOf"}

AllTriples == UNION {Relation(p) : p \in Predicates} \cup Typing("Female") \cup Typing("Male")

SiblingTriples == Relation("sibling") \cup Relation("childOf")

KinTriples == Relation("parentOf") \cup Relation("childOf") \cup Relation("sibling")
                \cup Relation("cousinFor")

(***************************************************************************)
(* Actions.                                                                *)
(***************************************************************************)
\* OntologyService.from_file: graph.parse adds the triples of the file.
AddTriple(t, max) ==
    /\ pc = "parse"
    /\ t \notin graph
    /\ Cardinality(graph) < max
    /\ graph' = graph \cup {t}
    /\ UNCHANGED <<pc, op, arg, result>>
    /\ UNCHANGED cliVars

\* A caller invokes one public method on the loaded service.  The graph is
\* read-only, so calls do not influence each other: one call per run.
Call(method_name) ==
    /\ pc = "parse"
    /\ \E x \in Persons : \E r \in Returns(method_name, x) :
        /\ op' = method_name
        /\ arg' = x
        /\ result' = r
    /\ pc' = "query"
    /\ UNCHANGED graph
    /\ UNCHANGED cliVars

StoreInit ==
    /\ graph = {}
    /\ pc = "parse"
    /\ op = "none"
    /\ arg = "none"
    /\ result = <<>>
    /\ ontoFile = "present"
    /\ line = NoLine
    /\ me = ""
    /\ rels = <<>>
    /\ idx = 0
    /\ out = <<>>
    /\ calls = <<>>
    /\ exitCode = -1
    /\ want = <<>>

SiblingNext ==
    \/ \E t \in SiblingTriples : AddTriple(t, MaxTriples)
    \/ Call("siblings_of")

SpecSibling == StoreInit /\ [][SiblingNext]_vars

KinNext ==
    \/ \E t \in KinTriples : AddTriple(t, MaxKinTriples)
    \/ Call("cousins_for")

SpecKin == StoreInit /\ [][KinNext]_vars

ParentNext ==
    \/ \E t \in ParentTriples : AddTriple(t, MaxTriples)
    \/ Call("mother_of")
    \/ Call("father_of")

SpecParent == StoreInit /\ [][ParentNext]_vars

GrandNext ==
    \/ \E t \in GrandTriples : AddTriple(t, MaxTriples)
    \/ Call("grandparents_of")

SpecGrand == StoreInit /\ [][GrandNext]_vars

StoreNext ==
    \/ \E t \in AllTriples : AddTriple(t, MaxFacts)
    \/ Call("parents_of")
    \/ Call("children_of")
    \/ Call("mother_of")
    \/ Call("father_of")
    \/ Call("siblings_of")
    \/ Call("brothers_of")
    \/ Call("sisters_of")
    \/ Call("aunts_for")
    \/ Call("uncles_for")
    \/ Call("cousins_for")
    \/ Call("male_cousins_for")
    \/ Call("grandparents_of")
    \/ Call("grandchildren_of")

SpecStore == StoreInit /\ [][StoreNext]_vars

(***************************************************************************)
(* main.py.  A line is a sequence of tokens: a word (a maximal run of      *)
(* letters, digits, '_' and '-'), or one character of " ", ":", ",", ";",  *)
(* "!" (a character of no class the pattern names).  Russian words are     *)
(* written in Latin letters: "ya" is the word for I, "ishchu" and          *)
(* "interesuyut" the seek words, and a word with "yo" in it stands for the *)
(* spelling with the letter the normalisation replaces.                    *)
(***************************************************************************)

\* The tokens normalize_text changes, with what it makes of them:
\* s.replace(...).lower()
Lowered == [Ya |-> "ya", Ishchu |-> "ishchu", EXIT |-> "exit", Exit |-> "exit",
            Quit |-> "quit", HELP |-> "help", List |-> "list", Teti |-> "teti",
            syostry |-> "sestry", bratya_syostry |-> "bratya_sestry", Mike |-> "mike"]

\* normalize_text without the lowering.
NormalizeToken_identity(t) == t

NormalizeToken(t) == IF t \in DOMAIN Lowered THEN Lowered[t] ELSE t

normalize_text(s) == [i \in 1..Len(s) |-> NormalizeToken(s[i])]

IsSpace(t) == t = " "

\* [:\s]
ColonOrSpace == {":", " "}

\* [\s,]
SpaceOrComma == {" ", ","}

\* [\w\-...]: the tokens that are words
IsWord(t) == t \notin {" ", ":", ",", ";", "!", "<EOF>", "<none>"}

\* [\w..._\-;\s,]
IsRelChar(t) == IsWord(t) \/ t \in {";", " ", ","}

SeekWords == {"interesuyut", "ishchu"}

\* The first position from i on whose token is not in S: where a greedy S* ends.
SkipWhile(l, i, S) ==
    LET stops == {k \in i..Len(l) : l[k] \notin S}
    IN  IF stops = {} THEN Len(l) + 1 ELSE CHOOSE k \in stops : \A j \in stops : k <= j

\* INPUT_RE.match(line): whether it matches, and the groups me and rels
\* (rels is <<>> for None).
INPUT_RE(l) ==
    LET n == Len(l)
        p1 == SkipWhile(l, 1, {" "})
        p2 == SkipWhile(l, p1 + 1, ColonOrSpace)
        p4 == SkipWhile(l, p2 + 1, SpaceOrComma)
        p5 == SkipWhile(l, p4 + 1, ColonOrSpace)
        head == p1 <= n /\ l[p1] = "ya" /\ p2 > p1 + 1 /\ p2 <= n /\ IsWord(l[p2])
        \* where the group rels can start: after one or more of [:\s], with
        \* only characters of its class up to the end of the line
        starts == {q \in (p4 + 2)..p5 : q <= n /\ \A k \in q..n : IsRelChar(l[k])}
        seek == head /\ p4 <= n /\ l[p4] \in SeekWords /\ starts # {}
        bare == head /\ SkipWhile(l, p2 + 1, {" "}) = n + 1
        first == CHOOSE q \in starts : \A r \in starts : r <= q
    IN  IF seek THEN [matched |-> TRUE, me |-> l[p2], rels |-> SubSeq(l, first, n)]
        ELSE IF bare THEN [matched |-> TRUE, me |-> l[p2], rels |-> <<>>]
        ELSE [matched |-> FALSE, me |-> "", rels |-> <<>>]

\* REL_SPLIT_RE.split(rels_str), the empty pieces dropped.
REL_SPLIT(rels_str) == SelectSeq(rels_str, IsWord)

\* parse_input_line keeping the separators among the relations.
parse_input_line_unsplit(l) ==
    LET m == INPUT_RE(normalize_text(l))
    IN  IF ~m.matched
        THEN [error |-> TRUE, me |-> "", rels |-> <<>>]
        ELSE [error |-> FALSE, me |-> m.me, rels |-> SelectSeq(m.rels, LAMBDA t : t # " ")]

\* parse_input_line: error stands for the ValueError.
parse_input_line(l) ==
    LET m == INPUT_RE(normalize_text(l))
    IN  IF ~m.matched
        THEN [error |-> TRUE, me |-> "", rels |-> <<>>]
        ELSE [error |-> FALSE, me |-> m.me, rels |-> REL_SPLIT(m.rels)]

\* map_russian_relation_to_method(): the keys in order, and the table.
RelKeys == <<"mat", "otec", "roditeli", "bratya_syostry", "bratya", "sestry", "teti", "dyadi",
             "kuzeny", "dvoyurodnye_bratya", "babushki_dedushki", "vnuki">>

RelMethods == <<"mother_of", "father_of", "parents_of", "siblings_of", "brothers_of",
                "sisters_of", "aunts_for", "uncles_for", "cousins_for", "male_cousins_for",
                "grandparents_of", "grandchildren_of">>

\* rel_map_norm.get(nrel): the method name, "" for None.
rel_map_norm(nrel) ==
    LET hits == {i \in 1..Len(RelKeys) : NormalizeToken(RelKeys[i]) = nrel}
    IN  IF hits = {} THEN "" ELSE RelMethods[CHOOSE i \in hits : TRUE]

\* line.strip()
Strip(l) ==
    LET keep == {k \in 1..Len(l) : ~IsSpace(l[k])}
    IN  IF keep = {} THEN <<>>
        ELSE SubSeq(l, CHOOSE k \in keep : \A j \in keep : k <= j,
                       CHOOSE k \in keep : \A j \in keep : j <= k)

\* cmd = normalize_text(line.strip())
Cmd(l) == normalize_text(Strip(l))

list_individuals ==
    Sorted({n \in Persons : \E class \in {"Person", "Male", "Female"} :
                <<Local(n), "type", Local(class)>> \in graph})

(***************************************************************************)
(* The lines a user can type.                                              *)
(***************************************************************************)
Join(ws, sep) ==
    [i \in 1..(2 * Len(ws) - 1) |-> IF i % 2 = 1 THEN ws[(i + 1) \div 2] ELSE sep]

SeqsUpTo(S, n) == UNION {[1..k -> S] : k \in 1..n}

ControlLines ==
    {<<w>> : w \in {"exit", "EXIT", "quit", "Quit", "help", "HELP", "list", "List"}}
        \cup {<<" ", "Exit", " ">>}

\* Lines the pattern rejects.
RejectedLines ==
    { <<>>, <<"!">>, <<"mike">>, <<"exit", " ", "now">>,
      <<"Ya", " ", "mike", " ", "ishchu">>,
      <<"Ya", " ", "mike", " ", "ishchu", " ">>,
      <<"Ya", " ", "mike", " ", "teti">>,
      <<"Ya", " ", "mike", ":", " ", "ishchu", " ", "teti">>,
      <<"Ya", " ", "mike", " ", "ishchu", ",", " ", "teti">>,
      <<"Ya", " ", "mike", " ", "ishchu", " ", "teti", ":", "kuzeny">>,
      <<"Ya", " ", "mike", " ", "ishchu", " ", "teti", "!">> }

\* Lines with a name and no relation.
NameOnlyLines ==
    { <<"Ya", " ", "mike">>, <<"ya", ":", " ", "anna", " ">>,
      <<"Ya", " ", "mike", " ", "ishchu", " ", ";">>,
      <<"Ya", " ", "mike", ",", " ", "ishchu", ":", " ", " ">> }

PlainLine(name, ws) == <<"Ya", " ", name, " ", "ishchu", " ">> \o Join(ws, " ")

PunctLine(name, ws) == <<"Ya", ":", " ", name, ",", " ", "ishchu", ":", " ">> \o Join(ws, ";")

\* Every keyword alone, in the spellings a user may type.
SingleRelLists == {<<k>> : k \in Range(RelKeys) \cup {"Teti", "bratya_sestry", "syostry"}}

\* The lists over a known and an unknown keyword.
MixedRelLists == SeqsUpTo({"teti", "deti2"}, MaxRels)

CliNames == {"anna", "mike"}

StatementLines ==
    {PlainLine(n, ws) : n \in CliNames, ws \in SingleRelLists}
        \cup {PunctLine(n, ws) : n \in CliNames, ws \in SingleRelLists}
        \cup {PlainLine("mike", ws) : ws \in MixedRelLists}
        \cup {PunctLine("anna", ws) : ws \in MixedRelLists}

CliLines == ControlLines \cup RejectedLines \cup NameOnlyLines \cup StatementLines

\* The facts of the ontology file the command loop runs over: every predicate
\* between boris and mike, and their classes; anna is in no triple.
CliTriples ==
    {<<Local("boris"), p, Local("mike")>> : p \in Predicates}
        \cup {<<Local("mike"), p, Local("boris")>> : p \in {"parentOf", "childOf"}}
        \cup {<<Local("boris"), "type", Local("Female")>>,
              <<Local("mike"), "type", Local("Male")>>,
              <<Local("mike"), "type", Local("Person")>>}

(***************************************************************************)
(* main()                                                                  *)
(***************************************************************************)
CliInit ==
    /\ graph = {}
    /\ pc = "start"
    /\ op = "none"
    /\ arg = "none"
    /\ result = <<>>
    /\ ontoFile \in {"present", "missing"}
    /\ line = NoLine
    /\ me = ""
    /\ rels = <<>>
    /\ idx = 0
    /\ out = <<>>
    /\ calls = <<>>
    /\ exitCode = -1
    /\ want = <<>>

\* if not onto_path.exists(): print(...); return 1
MissingFile ==
    /\ pc = "start"
    /\ ontoFile = "missing"
    /\ out' = <<<<"missing">>>>
    /\ exitCode' = 1
    /\ pc' = "exit"
    /\ UNCHANGED <<line, me, rels, idx, calls, ontoFile, want>>
    /\ UNCHANGED storeVars

\* service = OntologyService.from_file(...) starts parsing
StartLoad ==
    /\ pc = "start"
    /\ ontoFile = "present"
    /\ pc' = "parse"
    /\ UNCHANGED cliVars
    /\ UNCHANGED storeVars

\* graph.parse raises with every format: the exception leaves main
ParseError ==
    /\ pc = "parse"
    /\ graph = {}
    /\ exitCode' = 1
    /\ pc' = "exit"
    /\ UNCHANGED <<line, me, rels, idx, out, calls, ontoFile, want>>
    /\ UNCHANGED storeVars

\* from_file returns; print_help() comes before the first prompt and is no
\* command's output
Loaded ==
    /\ pc = "parse"
    /\ pc' = "prompt"
    /\ UNCHANGED cliVars
    /\ UNCHANGED storeVars

\* input(PROMPT) raises EOFError: print(""); break; return 0
ReadEOF ==
    /\ pc = "prompt"
    /\ line' = EOFLine
    /\ out' = <<<<"newline">>>>
    /\ me' = ""
    /\ rels' = <<>>
    /\ idx' = 0
    /\ calls' = <<>>
    /\ exitCode' = 0
    /\ pc' = "exit"
    /\ UNCHANGED <<ontoFile, want>>
    /\ UNCHANGED storeVars

\* if cmd in ("exit", "quit"): break; return 0
ReadExit ==
    /\ pc = "prompt"
    /\ \E l \in CliLines :
        /\ Cmd(l) \in {<<"exit">>, <<"quit">>}
        /\ line' = l
    /\ out' = <<>>
    /\ me' = ""
    /\ rels' = <<>>
    /\ idx' = 0
    /\ calls' = <<>>
    /\ exitCode' = 0
    /\ pc' = "exit"
    /\ UNCHANGED <<ontoFile, want>>
    /\ UNCHANGED storeVars

\* if cmd == "help": print_help(); continue
ReadHelp ==
    /\ pc = "prompt"
    /\ \E l \in CliLines :
        /\ Cmd(l) = <<"help">>
        /\ line' = l
    /\ out' = <<<<"help">>>>
    /\ me' = ""
    /\ rels' = <<>>
    /\ idx' = 0
    /\ calls' = <<>>
    /\ pc' = "handled"
    /\ UNCHANGED <<exitCode, ontoFile, want>>
    /\ UNCHANGED storeVars

\* if cmd == "list": inds = service.list_individuals(); print ...; continue
ReadList ==
    /\ pc = "prompt"
    /\ \E l \in CliLines :
        /\ Cmd(l) = <<"list">>
        /\ line' = l
    /\ out' = <<<<"list", list_individuals>>>>
    /\ me' = ""
    /\ rels' = <<>>
    /\ idx' = 0
    /\ calls' = <<"list_individuals">>
    /\ pc' = "handled"
    /\ UNCHANGED <<exitCode, ontoFile, want>>
    /\ UNCHANGED storeVars

IsControl(l) == Cmd(l) \in {<<"exit">>, <<"quit">>, <<"help">>, <<"list">>}

\* ReadRejected letting the ValueError leave main.
ReadRejected_uncaught ==
    /\ pc = "prompt"
    /\ \E l \in CliLines :
        /\ ~IsControl(l)
        /\ parse_input_line(l).error
        /\ line' = l
    /\ out' = <<>>
    /\ me' = ""
    /\ rels' = <<>>
    /\ idx' = 0
    /\ calls' = <<>>
    /\ exitCode' = 1
    /\ pc' = "exit"
    /\ UNCHANGED <<ontoFile, want>>
    /\ UNCHANGED storeVars

\* except ValueError as e: print(str(e)); continue
\* the printed text is the rejection with its two usage examples
ReadRejected ==
    /\ pc = "prompt"
    /\ \E l \in CliLines :
        /\ ~IsControl(l)
        /\ parse_input_line(l).error
        /\ line' = l
    /\ out' = <<<<"invalid">>>>
    /\ me' = ""
    /\ rels' = <<>>
    /\ idx' = 0
    /\ calls' = <<>>
    /\ pc' = "handled"
    /\ UNCHANGED <<exitCode, ontoFile, want>>
    /\ UNCHANGED storeVars

\* if not rels: print("... Уточните, что ищете: 'ищу ...'"); continue
ReadNameOnly ==
    /\ pc = "prompt"
    /\ \E l \in CliLines :
        LET parsed == parse_input_line(l)
        IN  /\ ~IsControl(l)
            /\ ~parsed.error
            /\ parsed.rels = <<>>
            /\ line' = l
            /\ me' = parsed.me
            /\ out' = <<<<"clarify", parsed.me>>>>
    /\ rels' = <<>>
    /\ idx' = 0
    /\ calls' = <<>>
    /\ pc' = "handled"
    /\ UNCHANGED <<exitCode, ontoFile, want>>
    /\ UNCHANGED storeVars

\* me, rels = parse_input_line(line) with rels not empty: the for loop starts
ReadStatement ==
    /\ pc = "prompt"
    /\ \E l \in CliLines :
        LET parsed == parse_input_line(l)
        IN  /\ ~IsControl(l)
            /\ ~parsed.error
            /\ parsed.rels # <<>>
            /\ line' = l
            /\ me' = parsed.me
            /\ rels' = parsed.rels
    /\ idx' = 1
    /\ out' = <<>>
    /\ calls' = <<>>
    /\ pc' = "rels"
    /\ UNCHANGED <<exitCode, ontoFile, want>>
    /\ UNCHANGED storeVars

\* The loop goes on to the next relation, or ends.
NextRel ==
    /\ idx' = idx + 1
    /\ pc' = IF idx < Len(rels) THEN "rels" ELSE "handled"

\* UnknownRel with break for continue.
UnknownRel_break ==
    /\ pc = "rels"
    /\ rel_map_norm(NormalizeToken(rels[idx])) = ""
    /\ out' = Append(out, <<"unknown", rels[idx], RelKeys>>)
    /\ idx' = idx + 1
    /\ pc' = "handled"
    /\ UNCHANGED <<line, me, rels, calls, exitCode, ontoFile, want>>
    /\ UNCHANGED storeVars

\* if not method_name: print("Неизвестное отношение: ..."); continue
UnknownRel ==
    /\ pc = "rels"
    /\ rel_map_norm(NormalizeToken(rels[idx])) = ""
    /\ out' = Append(out, <<"unknown", rels[idx], RelKeys>>)
    /\ NextRel
    /\ UNCHANGED <<line, me, rels, calls, exitCode, ontoFile, want>>
    /\ UNCHANGED storeVars

\* results = method(me); print the results, or the no-data marker
KnownRel ==
    /\ pc = "rels"
    /\ LET method_name == rel_map_norm(NormalizeToken(rels[idx]))
       IN  /\ method_name # ""
           /\ \E r \in Returns(method_name, me) :
                /\ result' = r
                /\ out' = Append(out, IF r # <<>> THEN <<"results", rels[idx], r>>
                                                  ELSE <<"nodata", rels[idx]>>)
           /\ op' = method_name
           /\ arg' = me
           /\ calls' = Append(calls, method_name)
    /\ NextRel
    /\ UNCHANGED <<graph, line, me, rels, exitCode, ontoFile, want>>

\* while True: control is back at input(PROMPT), the last command's locals
\* are dead.
Continue ==
    /\ pc = "handled"
    /\ pc' = "prompt"
    /\ line' = NoLine
    /\ me' = ""
    /\ rels' = <<>>
    /\ idx' = 0
    /\ out' = <<>>
    /\ calls' = <<>>
    /\ op' = "none"
    /\ arg' = "none"
    /\ result' = <<>>
    /\ UNCHANGED <<graph, exitCode, ontoFile, want>>

CliNext ==
    \/ MissingFile
    \/ StartLoad
    \/ \E t \in CliTriples : AddTriple(t, MaxCliTriples)
    \/ ParseError
    \/ Loaded
    \/ ReadEOF
    \/ ReadExit
    \/ ReadHelp
    \/ ReadList
    \/ ReadRejected
    \/ ReadNameOnly
    \/ ReadStatement
    \/ UnknownRel
    \/ KnownRel
    \/ Continue
    \/ Call("children_of")

SpecCli == CliInit /\ [][CliNext]_vars

(***************************************************************************)
(* parse_input_line on its own: the lines of the two documented forms with *)
(* every mix of punctuation, and the lines the loop model uses that carry  *)
(* no relation.                                                            *)
(***************************************************************************)
RECURSIVE Weave(_, _, _)
\* ws[i], seps[i], ws[i+1], ... up to the last word
Weave(ws, seps, i) ==
    IF i = Len(ws) THEN <<ws[i]>> ELSE <<ws[i]>> \o seps[i] \o Weave(ws, seps, i + 1)

SepMixes == {<<" ">>, <<";">>, <<",">>, <<";", " ">>}

ParseKeys == {"bratya", "sestry", "teti"}

ParseNames == {"mike", "dmitriy_a"}

ParseInit ==
    /\ graph = {}
    /\ pc = "input"
    /\ op = "none"
    /\ arg = "none"
    /\ result = <<>>
    /\ ontoFile = "present"
    /\ me = ""
    /\ rels = <<>>
    /\ idx = 0
    /\ out = <<>>
    /\ calls = <<>>
    /\ exitCode = -1
    /\ \/ \E i \in {"Ya", "ya"}, afterI \in {<<" ">>, <<":", " ">>, <<":">>},
             n \in ParseNames, afterName \in {<<" ">>, <<",", " ">>, <<",">>},
             seek \in {"ishchu", "interesuyut"}, afterSeek \in {<<" ">>, <<":", " ">>, <<":">>},
             ws \in SeqsUpTo(ParseKeys, MaxParseRels) :
             \E seps \in [1..(Len(ws) - 1) -> SepMixes] :
                /\ line = <<i>> \o afterI \o <<n>> \o afterName \o <<seek>> \o afterSeek
                            \o Weave(ws, seps, 1)
                /\ want = <<n, ws>>
       \/ /\ line \in RejectedLines \cup NameOnlyLines
          /\ want = <<>>

\* parse_input_line(line) returns
ParseReturns ==
    /\ pc = "input"
    /\ ~parse_input_line(line).error
    /\ me' = parse_input_line(line).me
    /\ rels' = parse_input_line(line).rels
    /\ pc' = "parsed"
    /\ UNCHANGED <<line, idx, out, calls, exitCode, ontoFile, want>>
    /\ UNCHANGED storeVars

\* parse_input_line(line) raises ValueError
ParseRaises ==
    /\ pc = "input"
    /\ parse_input_line(line).error
    /\ out' = <<<<"invalid">>>>
    /\ pc' = "parsed"
    /\ UNCHANGED <<line, me, rels, idx, calls, exitCode, ontoFile, want>>
    /\ UNCHANGED storeVars

ParseNext == ParseReturns \/ ParseRaises

SpecParse == ParseInit /\ [][ParseNext]_vars

(***************************************************************************)
(* The stored facts, read off the graph.                                   *)
(***************************************************************************)
Edge(s, p, o) == <<Local(s), p, Local(o)>> \in graph

Called(method_name) == pc = "query" /\ op = method_name

IsType(x, class) == <<Local(x), "type", Local(class)>> \in graph

Rank(n) == CHOOSE i \in 1..Len(NameOrder) : NameOrder[i] = n

\* No duplicates, ascending lexicographic order.
Ascending(l) == \A i, j \in 1..Len(l) : i < j => Rank(l[i]) < Rank(l[j])

\* C2: the list every public relation operation returns has no duplicate
\* names and is in ascending lexicographic order.
C2_SortedDeduplicated == pc = "query" => Ascending(result)

\* C4: mother_of(x) is exactly the stored motherOf sources of x when there are
\* any, whatever parentOf edges lead to x, and otherwise exactly the parentOf
\* sources of x asserted Female; father_of likewise with fatherOf and Male.
C4_MotherFather ==
    /\ Called("mother_of") =>
          Range(result) =
            IF \E m \in Persons : Edge(m, "motherOf", arg)
            THEN {m \in Persons : Edge(m, "motherOf", arg)}
            ELSE {p \in Persons : Edge(p, "parentOf", arg) /\ IsType(p, "Female")}
    /\ Called("father_of") =>
          Range(result) =
            IF \E f \in Persons : Edge(f, "fatherOf", arg)
            THEN {f \in Persons : Edge(f, "fatherOf", arg)}
            ELSE {p \in Persons : Edge(p, "parentOf", arg) /\ IsType(p, "Male")}

\* mother_of answered with the stored mother alone although a female parent
\* that is no stored mother is in the graph.
C4_Witness ==
    /\ Called("mother_of")
    /\ result # <<>>
    /\ \E m, p \in Persons :
        /\ m # p
        /\ Edge(m, "motherOf", arg)
        /\ Edge(p, "parentOf", arg)
        /\ IsType(p, "Female")
        /\ ~Edge(p, "motherOf", arg)
        /\ p \notin Range(result)

\* C5: grandparents_of(x) is the stored grandparentOf sources of x together
\* with the parentOf sources of the parentOf sources of x.
C5_Grandparents ==
    Called("grandparents_of") =>
        Range(result) = {g \in Persons : Edge(g, "grandparentOf", arg)}
                          \cup {g \in Persons : \E p \in Persons :
                                    Edge(p, "parentOf", arg) /\ Edge(g, "parentOf", p)}

\* grandparents_of returned a stored grandparent and a different one found
\* through two parentOf edges.
C5_Witness ==
    /\ Called("grandparents_of")
    /\ \E g, h \in Range(result) :
        /\ g # h
        /\ Edge(g, "grandparentOf", arg)
        /\ ~Edge(h, "grandparentOf", arg)
        /\ \E p \in Persons \ {arg, h} :
            h # arg /\ Edge(p, "parentOf", arg) /\ Edge(h, "parentOf", p)

\* C1: siblings_of(x) never contains x itself, whatever sibling and childOf
\* edges are stored.
C1_SiblingsExcludeSelf == Called("siblings_of") => arg \notin Range(result)

\* The cousins the specification names: children of a parent's sibling, a
\* sibling being a stored sibling edge or a shared parentOf-parent.
SpecifiedCousins(x) ==
    {c \in Persons : \E p, s \in Persons :
        /\ Edge(p, "parentOf", x)
        /\ \/ Edge(s, "sibling", p)
           \/ Edge(p, "sibling", s)
           \/ s # p /\ \E q \in Persons : Edge(q, "parentOf", s) /\ Edge(q, "parentOf", p)
        /\ Edge(s, "parentOf", c)}

\* C3 as stated: cousins_for(x) is the stored cousinFor sources of x together
\* with the children of the siblings of x's parents, siblings found through a
\* stored sibling edge or a shared parentOf-parent.
C3_CousinsByParentOf ==
    Called("cousins_for") =>
        Range(result) = {c \in Persons : Edge(c, "cousinFor", arg)} \cup SpecifiedCousins(arg)

\* The same with the shared parent found through childOf edges, as the query
\* of siblings_of reads them.
ChildOfCousins(x) ==
    {c \in Persons : \E p, s \in Persons :
        /\ Edge(p, "parentOf", x)
        /\ \/ Edge(s, "sibling", p)
           \/ Edge(p, "sibling", s)
           \/ s # p /\ \E q \in Persons : Edge(s, "childOf", q) /\ Edge(p, "childOf", q)
        /\ Edge(s, "parentOf", c)}

\* C3 amended: cousins_for(x) is the stored cousinFor sources of x together
\* with the children (parentOf) of the siblings of x's parentOf-parents, a
\* sibling of p being s with a stored sibling edge between s and p, or s
\* different from p with childOf edges from both to a common individual.
C3_CousinsByChildOf ==
    Called("cousins_for") =>
        Range(result) = {c \in Persons : Edge(c, "cousinFor", arg)} \cup ChildOfCousins(arg)

\* cousins_for returned a cousin that is not stored and is reached only
\* through a childOf-shared parent.
C3_Witness ==
    /\ Called("cousins_for")
    /\ \E c \in Range(result) :
        /\ ~Edge(c, "cousinFor", arg)
        /\ \A p, s \in Persons : ~Edge(s, "sibling", p)
        /\ \E p, s, q \in Persons :
            /\ s # p
            /\ Edge(p, "parentOf", arg)
            /\ Edge(s, "childOf", q)
            /\ Edge(p, "childOf", q)
            /\ Edge(s, "parentOf", c)

(***************************************************************************)
(* The command loop, as the specification words it.                        *)
(***************************************************************************)
\* The keywords of the table, after case and letter normalisation.
TableKeywords == {"mat", "otec", "roditeli", "bratya_sestry", "bratya", "sestry", "teti",
                  "dyadi", "kuzeny", "dvoyurodnye_bratya", "babushki_dedushki", "vnuki"}

NonSpaces(l) == SelectSeq(l, LAMBDA t : t # " ")

\* exit or quit in any letter case, alone on the line
IsExitLine(l) ==
    Len(NonSpaces(l)) = 1 /\ NonSpaces(l)[1] \in {"exit", "EXIT", "Exit", "quit", "Quit", "QUIT"}

IsControlLine(l) ==
    \/ IsExitLine(l)
    \/ Len(NonSpaces(l)) = 1 /\ NonSpaces(l)[1] \in {"help", "HELP", "Help", "list", "List", "LIST"}

All(l, i, j, S) == \A k \in i..j : l[k] \in S

\* Where the word for I can stand: after blanks only.
Openers(l) == {a \in 1..Len(l) : l[a] \in {"ya", "Ya"} /\ All(l, 1, a - 1, {" "})}

\* Where the name can stand, the word for I being at a: after ':' or blanks,
\* one at least.
NamePlaces(l, a) == {b \in (a + 2)..Len(l) : IsWord(l[b]) /\ All(l, a + 1, b - 1, {":", " "})}

\* Where the seek word can stand, the name being at b: after blanks or commas.
SeekPlaces(l, b) ==
    {c \in (b + 1)..Len(l) :
        l[c] \in {"ishchu", "Ishchu", "interesuyut"} /\ All(l, b + 1, c - 1, {" ", ","})}

\* Where the relation part can start, the seek word being at c: after ':' or
\* blanks, one at least, and holding keywords and separators up to the end.
RelationParts(l, c) ==
    {d \in (c + 2)..Len(l) :
        /\ All(l, c + 1, d - 1, {":", " "})
        /\ \A k \in d..Len(l) : IsWord(l[k]) \/ l[k] \in {";", " ", ","}}

\* The expected statement shape: a name followed by a seek clause with at
\* least one relation.
StatementShape(l) ==
    \E a \in Openers(l) : \E b \in NamePlaces(l, a) : \E c \in SeekPlaces(l, b) :
        \E d \in RelationParts(l, c) : \E k \in d..Len(l) : IsWord(l[k])

\* A name and no relation: nothing but blanks after the name, or a seek
\* clause whose relation part holds separators only.
NameOnlyShape(l) ==
    \E a \in Openers(l) : \E b \in NamePlaces(l, a) :
        \/ All(l, b + 1, Len(l), {" "})
        \/ \E c \in SeekPlaces(l, b) : \E d \in RelationParts(l, c) :
                All(l, d, Len(l), {";", " ", ","})

LineRead == line # NoLine /\ line # EOFLine

IsResultLine(e, rel) == e[1] \in {"results", "nodata"} /\ e[2] = rel

\* C6: on a line with several relation keywords, an unknown keyword is
\* reported with the valid keywords and every other keyword of the line is
\* still processed: the output has one line per keyword, in input order, a
\* result line for each recognized one, before or after the unknown one.
C6_UnknownKeywordContinues ==
    (pc \in {"rels", "handled"} /\ rels # <<>>) =>
        /\ Len(out) = IF pc = "handled" THEN Len(rels) ELSE idx - 1
        /\ \A i \in 1..Len(out) :
            IF rels[i] \in TableKeywords
            THEN IsResultLine(out[i], rels[i])
            ELSE out[i] = <<"unknown", rels[i], RelKeys>>

\* A line with a recognized keyword before and after an unknown one is done.
C6_Witness ==
    /\ pc = "handled"
    /\ Len(rels) = 3
    /\ rels[1] \in TableKeywords
    /\ rels[2] \notin TableKeywords
    /\ rels[3] \in TableKeywords
    /\ out[2][1] = "unknown"
    /\ IsResultLine(out[3], rels[3])

\* C7 as stated: a line that is no control command and has not the
\* statement shape gets the rejection message with a usage example, invokes
\* no Ontology Store operation, and the loop goes on.
C7_RejectedWithExample ==
    (LineRead /\ ~IsControlLine(line) /\ ~StatementShape(line)) =>
        /\ pc = "handled"
        /\ out = <<<<"invalid">>>>
        /\ calls = <<>>

\* C7 amended: a line that is no control command and has not the statement
\* shape invokes no Ontology Store operation and the loop goes on; it gets
\* the clarification request naming the individual when it names one and no
\* relation, and the rejection message with a usage example otherwise.
C7_RejectedOrClarified ==
    (LineRead /\ ~IsControlLine(line) /\ ~StatementShape(line)) =>
        /\ pc = "handled"
        /\ exitCode = -1
        /\ calls = <<>>
        /\ out = IF NameOnlyShape(line)
                 THEN <<<<"clarify", SelectSeq(line, IsWord)[2]>>>>
                 ELSE <<<<"invalid">>>>

\* A line with a misplaced ':' after the name was rejected.
C7_Witness ==
    /\ pc = "handled"
    /\ line = <<"Ya", " ", "mike", ":", " ", "ishchu", " ", "teti">>
    /\ out = <<<<"invalid">>>>

\* C8: with the ontology loaded the loop ends only on exit or quit, in any
\* letter case, or on end of input, and then with exit status 0; any other
\* line is handled and the prompt comes back: a relation loop moves on one
\* keyword at a time up to the last and a handled command is followed by
\* the prompt.  With the ontology file missing the program ends with status
\* 1 and never prompts.
C8_LoopExit ==
    [][/\ pc = "prompt" =>
            /\ pc' \in {"exit", "handled", "rels"}
            /\ (pc' = "exit") <=> (line' = EOFLine \/ IsExitLine(line'))
            /\ pc' = "exit" => exitCode' = 0
            /\ pc' # "exit" => exitCode' = -1
       /\ pc = "rels" =>
            /\ idx <= Len(rels)
            /\ idx' = idx + 1
            /\ pc' = IF idx' <= Len(rels) THEN "rels" ELSE "handled"
       /\ pc = "handled" => pc' = "prompt"
       /\ pc = "exit" => pc' = "exit"
       /\ (pc = "start" /\ ontoFile = "missing") => (pc' = "exit" /\ exitCode' = 1)
       /\ pc' = "prompt" => ontoFile = "present"
      ]_vars

\* The loop ended on EXIT in capitals, with status 0.
C8_Witness ==
    /\ pc = "exit"
    /\ line = <<"EXIT">>
    /\ exitCode = 0

\* C9: parse_input_line takes the unpunctuated and the punctuated form and
\* returns the name and the relation keywords in input order, whichever of
\* ';', ',' and blanks separate the relations, with or without ':' after the
\* word for I, ',' after the name and ':' after the seek word.
C9_ParseForms ==
    (pc = "parsed" /\ want # <<>>) =>
        /\ out = <<>>
        /\ me = want[1]
        /\ rels = want[2]

\* The punctuated example was parsed.
C9_Witness ==
    /\ pc = "parsed"
    /\ line = <<"Ya", ":", " ", "dmitriy_a", ",", " ", "ishchu", ":", " ", "bratya", ";", "sestry">>
    /\ me = "dmitriy_a"
    /\ rels = <<"bratya", "sestry">>

NameInNoTriple(n) == \A t \in graph : t[1] # <<BaseNs, n>> /\ t[3] # <<BaseNs, n>>

\* C10: for a local name in no triple of the graph every relation operation
\* returns the empty list, nothing is raised, and the interpreter prints the
\* no-data marker for each relation requested.
C10_UnknownIndividual ==
    /\ (pc = "query" /\ NameInNoTriple(arg)) => result = <<>>
    /\ (pc \in {"rels", "handled"} /\ rels # <<>> /\ NameInNoTriple(me)) =>
        /\ exitCode = -1
        /\ calls # <<>> => result = <<>>
        /\ Len(out) = IF pc = "handled" THEN Len(rels) ELSE idx - 1
        /\ \A i \in 1..Len(out) :
            rels[i] \in TableKeywords => out[i] = <<"nodata", rels[i]>>

\* anna, in no triple, asked for her parents while the graph holds a
\* parentOf fact, and got the no-data marker.
C10_Witness ==
    /\ pc = "handled"
    /\ me = "anna"
    /\ NameInNoTriple("anna")
    /\ \E t \in graph : t[2] = "parentOf"
    /\ calls = <<"parents_of">>
    /\ out = <<<<"nodata", "roditeli">>>>

====
